---- MODULE Spec2Model ----
(***************************************************************************)
(* Model of olive's task engine (olive/tasks) and of the sandbox           *)
(* task-runner's result protocol (olive/tasks/runner.py).                  *)
(*                                                                         *)
(* Threads of the TaskManager part:                                        *)
(*   - caller threads, each running one of the caller event loops Loops:   *)
(*     create_task, wait_for_result, cancel_task, cancel_all;              *)
(*   - the background thread "OliveTaskLoop" with its asyncio loop, which  *)
(*     runs one _run_wrapper coroutine per task.  The loop is              *)
(*     single-threaded: between two awaits a wrapper runs alone on it      *)
(*     (bgRunning), but its effects on memory and disk are visible to the  *)
(*     caller threads one at a time.                                       *)
(***************************************************************************)
EXTENDS Integers, Sequences, FiniteSets, TLC

\* ------------------------------------------------------------------ bounds
MaxTasks == 2          \* number of create_task calls explored
MaxConcurrency == 1    \* TaskManager(max_concurrency=N)
MaxLoops == 2          \* caller event loops (one per asyncio.run of a caller)
MaxInitCalls == 3      \* initialize() calls explored, the constructor's included
MaxWaiters == 2        \* await_file / wait_file calls explored
MaxEdits == 1          \* changes of the settings and watched files explored

TaskIds == 1..MaxTasks
Loops == 1..MaxLoops
NoLoop == 0
NoTask == 0

\* ------------------------------------------------------------------ values
PENDING == "pending"
RUNNING == "running"
COMPLETED == "completed"
FAILED == "failed"
CANCELLED == "cancelled"
NotCreated == "absent"      \* id never handed out by create_task

TerminalStatus == {COMPLETED, FAILED, CANCELLED}

None == "None"
Outputs == {"hi"}                     \* values a work item returns
Exceptions == {"boom", ""}            \* str(exc) of the exceptions a work item raises

\* TaskResult(output, error, status); NoResult is Task.result = None
NoResult == [output |-> None, error |-> None, status |-> None]

TaskResult(output, error, status) ==
    [output |-> output, error |-> error, status |-> status]

\* a file on disk: absent, opened-and-truncated (partial), or a complete document
NoFile == [state |-> "absent", doc |-> NoResult]
PartialFile == [state |-> "partial", doc |-> NoResult]
CompleteFile(doc) == [state |-> "complete", doc |-> doc]

\* ------------------------------------------------------------------ state
VARIABLES
    runner,        \* TaskManager._runner: "None" until _run_background publishes it
    main_loop,     \* TaskManager._main_loop
    loopClosed,    \* caller loop -> closed?
    sema,          \* TaskManager._sema._value
    semaWaiters,   \* TaskManager._sema._waiters (FIFO of wrappers)
    nextId,        \* next fresh TaskSpec.id
    status,        \* Task.status
    result,        \* Task.result
    task_handle,   \* Task._task
    pc,            \* position of the task's _run_wrapper coroutine
    bgRunning,     \* wrapper currently executing on the background loop
    wrapperExc,    \* exception in flight in the wrapper / its asyncio task ended with
    hooks,         \* hook events dispatched for the task, in order
    specFile,      \* <tasks-root>/<id>.json
    tmpFile,       \* <tasks-root>/<id>.result.tmp
    resultFile,    \* <tasks-root>/<id>.result.json
    resultWrites,  \* number of times the result file was replaced
    eventSet,      \* _result_events[id]._value
    eventLoop,     \* _result_events[id]._loop (loop the Event is bound to)
    callbacks,     \* call_soon_threadsafe(waiter_event.set) queued on a caller loop
    waiter,        \* the caller's wait_for_result call: suspended, or its last return
    lastCancel,    \* history: the live tasks the last cancel call was made on
    raised,        \* history: str(exc) of the Exception the task's work raised
    dispatches,    \* number of dispatch_task calls made
    dpc,           \* position of the host's dispatch_task call
    dspec,         \* the TaskSpec being dispatched and the wait flag
    dret,          \* outcome of the last dispatch_task call
    rpcTmpFile,    \* <rpc-dir>/<random>.tmp
    rpcTaskFile,   \* <rpc-dir>/<return_id|id>.json
    runnerPc,      \* position of run_task_from_file inside the sandbox
    runnerOut,     \* output of the tool the runner ran
    returncode,    \* exit status of `docker exec ... olive run-task`
    ridFile,       \* <tasks-root>/<return_id>.result.json
    readerSaw,     \* what the last reader of the result path found
    dhist,         \* history of the current dispatch_task call
    initCalls,     \* number of initialize() calls made
    threads,       \* number of "OliveTaskLoop" threads started
    published,     \* number of those threads that have run `self._runner = runner`
    sigHandler,    \* handler installed for SIGINT and SIGTERM
    cancelledVar,  \* TaskManager._cancelled, a ContextVar: its value in each context
    signalled,     \* history: a termination signal was delivered
    monitorSeen,   \* what _monitor's last `self._cancelled.get()` since then returned
    stop_event,    \* _run_background's stop_event: set makes runner.run return
    exists,        \* path -> the file is on disk
    fsEvents,      \* created-events queued on the observer's notification thread
    dirHandler,    \* _DIR_HANDLERS[dir]: the handler scheduled for the directory
    nextHandler,   \* next fresh DirectoryHandler
    hWaiters,      \* DirectoryHandler._waiters: path -> waiters whose Event is listed
    notif,         \* position of the notification thread inside on_created
    aw,            \* the await_file calls: position, arguments, Event, return
    session,       \* env._SESSION_ID is set
    container_name, \* SandboxManager.container_name
    container,     \* the runtime's container of the deterministic name
    docker,        \* the container runtime: reachable ("up") or not ("down")
    hash,          \* SandboxManager._snapshot_hash() of settings and watched files
    stamp,         \* .olive-snapshot/.snapshot_hash (0: missing)
    image,         \* hash olive/sandbox:latest was built from (0: no image)
    launched,      \* history: was the container launched from a current image
    buildLog,      \* history: did the latest consecutive build() calls run the tool
    startRet,      \* outcome of the last start() call
    bhist,         \* history of the last build() call
    sandboxEnabled, \* prefs.is_sandbox_enabled()
    line,          \* the input line of the last dispatch call
    ran,           \* the branches that call executed, in order
    toolRun,       \* the tool invocation that call made and its task's end
    shist,         \* history: the sandbox as that call found it
    daemons,       \* number of live daemons of kind "shell"
    via            \* history of the last run_shell_command call

tmvars == <<runner, main_loop, loopClosed, sema, semaWaiters, nextId, status,
            result, task_handle, pc, bgRunning, wrapperExc, hooks, specFile,
            tmpFile, resultFile, resultWrites, eventSet, eventLoop, callbacks,
            waiter, lastCancel, raised>>

rpcvars == <<dispatches, dpc, dspec, dret, rpcTmpFile, rpcTaskFile, runnerPc,
             runnerOut, returncode, ridFile, readerSaw, dhist>>

lifevars == <<initCalls, threads, published, sigHandler, cancelledVar,
              signalled, monitorSeen, stop_event>>

watchvars == <<exists, fsEvents, dirHandler, nextHandler, hWaiters, notif, aw>>

sbvars == <<session, container_name, container, docker, hash, stamp, image,
            launched, buildLog, startRet, bhist>>

shvars == <<sandboxEnabled, line, ran, toolRun, shist, daemons, via>>

vars == <<tmvars, rpcvars, lifevars, watchvars, sbvars, shvars>>

\* after_timeout: the call follows a timed-out wait of the caller on the same id
IdleWaiter == [pc |-> "idle", id |-> NoTask, loop |-> NoLoop, timeout |-> FALSE,
               after_timeout |-> FALSE, ret |-> "none", value |-> NoResult]

\* TaskManager.__init__ has run: initialize() started the thread, whose
\* _run_background has not yet published the runner.
InitTM ==
    /\ runner = None
    /\ main_loop = NoLoop
    /\ loopClosed = [l \in Loops |-> FALSE]
    /\ sema = MaxConcurrency
    /\ semaWaiters = <<>>
    /\ nextId = 1
    /\ status = [t \in TaskIds |-> NotCreated]
    /\ result = [t \in TaskIds |-> NoResult]
    /\ task_handle = [t \in TaskIds |-> None]
    /\ pc = [t \in TaskIds |-> "absent"]
    /\ bgRunning = NoTask
    /\ wrapperExc = [t \in TaskIds |-> None]
    /\ hooks = [t \in TaskIds |-> <<>>]
    /\ specFile = [t \in TaskIds |-> "absent"]
    /\ tmpFile = [t \in TaskIds |-> NoFile]
    /\ resultFile = [t \in TaskIds |-> NoFile]
    /\ resultWrites = [t \in TaskIds |-> 0]
    /\ eventSet = [t \in TaskIds |-> FALSE]
    /\ eventLoop = [t \in TaskIds |-> NoLoop]
    /\ callbacks = [l \in Loops |-> {}]
    /\ waiter = IdleWaiter
    /\ lastCancel = {}
    /\ raised = [t \in TaskIds |-> None]

NoSpec == [return_id |-> None, name |-> None, wait |-> FALSE]

\* Nothing dispatched yet.
InitRpc ==
    /\ dispatches = 0
    /\ dpc = "idle"
    /\ dspec = NoSpec
    /\ dret = "none"
    /\ rpcTmpFile = "absent"
    /\ rpcTaskFile = "absent"
    /\ runnerPc = "idle"
    /\ runnerOut = None
    /\ returncode = 0
    /\ ridFile = NoFile
    /\ readerSaw = "none"
    /\ dhist = [running |-> FALSE, wrote |-> FALSE]

\* contexts holding a value of the ContextVar: the main thread's, in which
\* signal handlers run, and the copy taken by loop.create_task(_monitor())
\* on the background thread
Contexts == {"main", "monitor"}

\* The constructor's initialize() call has installed the signal handlers and
\* started the one thread.
InitLife ==
    /\ initCalls = 1
    /\ threads = 1
    /\ published = 0
    /\ sigHandler = "TaskManager._handle"
    /\ cancelledVar = [c \in Contexts |-> FALSE]
    /\ signalled = FALSE
    /\ monitorSeen = "none"
    /\ stop_event = FALSE

Waiters == 1..MaxWaiters
Handlers == 1..MaxWaiters
NoHandler == 0
Paths == {"a", "b"}                  \* files of the one watched directory

IdleAwait == [pc |-> "idle", path |-> "a", timeout |-> FALSE, mode |-> "none",
              handler |-> NoHandler, evt |-> "unset", ret |-> "none"]

\* watcher module imported: no observer watch, no handler, no waiter
InitWatch ==
    /\ exists = [p \in Paths |-> FALSE]
    /\ fsEvents = {}
    /\ dirHandler = NoHandler
    /\ nextHandler = 1
    /\ hWaiters = [h \in Handlers |-> [p \in Paths |-> {}]]
    /\ notif = [pc |-> "idle", h |-> NoHandler]
    /\ aw = [w \in Waiters |-> IdleAwait]

\* what the build tool prints when it fails
Diagnostics == {"failed to solve", "no space left on device"}

\* str() of the exception build() raises when the build tool exits non-zero
BuildFailed == "Container build failed - see log for details."

\* One build() call: whether it ran the build tool, whether the tool failed,
\* the stamp it found, the tool's diagnostic output and the message of the
\* exception the call raised.
BuildHist(runs, ok, st, out) ==
    [ran |-> runs, failed |-> runs /\ ~ok, before |-> st,
     out |-> IF runs /\ ~ok THEN out ELSE None,
     exc |-> IF runs /\ ~ok THEN BuildFailed ELSE None]

NoBuild == BuildHist(FALSE, TRUE, 0, None)

\* SandboxManager() in a fresh project: no session, no recorded name, no
\* container, nothing built; sandbox mode is enabled in the preferences.
InitSandbox ==
    /\ session = FALSE
    /\ container_name = None
    /\ container = "none"
    /\ docker = "up"
    /\ hash = 1
    /\ stamp = 0
    /\ image = 0
    /\ launched = "none"
    /\ buildLog = <<>>
    /\ startRet = "none"
    /\ bhist = NoBuild

NoToolRun == [where |-> "none", exc |-> None, status |-> None]

\* The shell has read no line yet and no daemon is alive.
InitShell ==
    /\ sandboxEnabled = TRUE
    /\ line = <<>>
    /\ ran = <<>>
    /\ toolRun = NoToolRun
    /\ shist = [called |-> FALSE, enabled |-> FALSE, running |-> FALSE,
                docker |-> "up"]
    /\ daemons = 0
    /\ via = [called |-> FALSE, alive |-> 0, forwarded |-> FALSE,
              dispatched |-> FALSE]

Init == InitTM /\ InitRpc /\ InitLife /\ InitWatch /\ InitSandbox /\ InitShell

\* ------------------------------------------------------------------ hooks
\* _HookRegistry.dispatch(event, task): every registered hook is called once;
\* a throwing hook is caught and logged.
DispatchTwice(log, event) == Append(Append(log, event), event)

Dispatch(log, event) == Append(log, event)

\* ------------------------------------------------------------------ background thread
\* initialize(): returns at once when a runner is published
\* (`if self._runner is not None: return`); else installs the signal handlers
\* and starts a thread running _run_background.
AlreadyRunning(r) == r # None

Initialize ==
    /\ initCalls < MaxInitCalls
    /\ initCalls' = initCalls + 1
    /\ threads' = IF AlreadyRunning(runner) THEN threads ELSE threads + 1
    /\ sigHandler' = IF AlreadyRunning(runner) THEN sigHandler
                                               ELSE "TaskManager._handle"
    /\ UNCHANGED <<tmvars, rpcvars, watchvars, sbvars, shvars, published,
                   cancelledVar, signalled, monitorSeen, stop_event>>

\* _run_background on one of the started threads: `self._runner = runner`
RunBackground ==
    /\ published < threads
    /\ published' = published + 1
    /\ runner' = "Runner"
    /\ UNCHANGED <<rpcvars, watchvars, sbvars, shvars, main_loop, loopClosed,
                   sema, semaWaiters, nextId, status, result, task_handle, pc,
                   bgRunning, wrapperExc, hooks, specFile, tmpFile, resultFile,
                   resultWrites, eventSet, eventLoop, callbacks, waiter,
                   lastCancel, raised, initCalls, threads, sigHandler,
                   cancelledVar, signalled, monitorSeen, stop_event>>

\* ------------------------------------------------------------------ create_task
\* Called inside the running caller loop l.  Registers the task, fires the
\* create hook, creates the waiter Event and schedules _run_wrapper on the
\* background loop.  While the runner is not yet published,
\* `self._runner.get_loop()` raises AttributeError after the task has been
\* registered: the wrapper is never scheduled.
CreateTask(l) ==
    /\ nextId <= MaxTasks
    /\ ~loopClosed[l]
    /\ LET t == nextId IN
       /\ main_loop' = IF main_loop = NoLoop THEN l ELSE main_loop
       /\ specFile' = [specFile EXCEPT ![t] = "saved"]
       /\ status' = [status EXCEPT ![t] = PENDING]
       /\ hooks' = [hooks EXCEPT ![t] = Dispatch(@, "create")]
       /\ pc' = [pc EXCEPT ![t] = IF runner = None THEN "unscheduled" ELSE "queued"]
       /\ nextId' = nextId + 1
    /\ UNCHANGED <<rpcvars, lifevars, watchvars, sbvars, shvars, runner,
                   loopClosed, sema, semaWaiters, result, task_handle, bgRunning,
                   wrapperExc, tmpFile, resultFile, resultWrites, eventSet,
                   eventLoop, callbacks, waiter, lastCancel, raised>>

\* ------------------------------------------------------------------ _run_wrapper
\* asyncio.Semaphore.locked(): `async with self._sema` suspends the wrapper
\* when no permit is free or earlier wrappers are already queued.
MustWaitNever(value, queue) == FALSE

MustWait(value, queue) == value = 0 \/ queue # <<>>

\* asyncio.Semaphore.release(): the permit goes straight to the first queued
\* wrapper, else back to the counter.
Release ==
    IF semaWaiters # <<>>
    THEN /\ semaWaiters' = Tail(semaWaiters)
         /\ sema' = sema
    ELSE /\ semaWaiters' = semaWaiters
         /\ sema' = sema + 1

\* Inside the permit: the start hook, then Task.run up to the work's first
\* suspension (status RUNNING).
StartedHooks(log) == Dispatch(log, "start")

\* The loop runs the callback queued by create_task: the wrapper starts and
\* either takes a permit at once or queues on the semaphore.
ScheduleWrapper(t) ==
    /\ pc[t] = "queued"
    /\ bgRunning = NoTask
    /\ IF MustWait(sema, semaWaiters)
       THEN /\ semaWaiters' = Append(semaWaiters, t)
            /\ pc' = [pc EXCEPT ![t] = "blocked"]
            /\ UNCHANGED <<sema, hooks, status>>
       ELSE /\ sema' = sema - 1
            /\ hooks' = [hooks EXCEPT ![t] = StartedHooks(@)]
            /\ status' = [status EXCEPT ![t] = RUNNING]
            /\ pc' = [pc EXCEPT ![t] = "working"]
            /\ UNCHANGED semaWaiters
    /\ UNCHANGED <<rpcvars, lifevars, watchvars, sbvars, shvars, runner,
                   main_loop, loopClosed, nextId, result, task_handle, bgRunning,
                   wrapperExc, specFile, tmpFile, resultFile, resultWrites,
                   eventSet, eventLoop, callbacks, waiter, lastCancel, raised>>

\* A queued wrapper that was handed a permit by Release resumes.
Resume(t) ==
    /\ pc[t] = "blocked"
    /\ bgRunning = NoTask
    /\ t \notin {semaWaiters[i] : i \in 1..Len(semaWaiters)}
    /\ hooks' = [hooks EXCEPT ![t] = StartedHooks(@)]
    /\ status' = [status EXCEPT ![t] = RUNNING]
    /\ pc' = [pc EXCEPT ![t] = "working"]
    /\ UNCHANGED <<rpcvars, lifevars, watchvars, sbvars, shvars, runner,
                   main_loop, loopClosed, sema, semaWaiters, nextId, result,
                   task_handle, bgRunning, wrapperExc, specFile, tmpFile,
                   resultFile, resultWrites, eventSet, eventLoop, callbacks,
                   waiter, lastCancel, raised>>

\* Task.run, try/except around `await self._coro_factory()`.  kind "return":
\* the work returned val; kind "raise": it raised an Exception whose str() is
\* val; kind "cancel": it was interrupted by asyncio.CancelledError, a
\* BaseException that `except Exception` does not catch.
RunStatus(kind, st) ==
    IF kind = "return" THEN COMPLETED
    ELSE IF kind = "raise" THEN FAILED
    ELSE st

RunResultDropsError(kind, val, st) ==
    IF kind = "return" THEN TaskResult(val, None, st)
    ELSE IF kind = "raise" THEN TaskResult(None, None, st)
    ELSE NoResult

RunResult(kind, val, st) ==
    IF kind = "return" THEN TaskResult(val, None, st)
    ELSE IF kind = "raise" THEN TaskResult(None, val, st)
    ELSE NoResult

\* the exception Task.run lets through to _run_wrapper
RunLetsThrough(kind, val) == IF kind = "cancel" THEN "CancelledError" ELSE None

\* The work ends: Task.run records the outcome; its finally block saves the
\* result if there is one, else control is back in the wrapper.
WorkEnds(t, kind, val) ==
    /\ pc[t] = "working"
    /\ bgRunning = NoTask
    /\ bgRunning' = t
    /\ status' = [status EXCEPT ![t] = RunStatus(kind, @)]
    /\ result' = [result EXCEPT ![t] = RunResult(kind, val, RunStatus(kind, status[t]))]
    /\ wrapperExc' = [wrapperExc EXCEPT ![t] = RunLetsThrough(kind, val)]
    /\ raised' = [raised EXCEPT ![t] = IF kind = "raise" THEN val ELSE None]
    /\ pc' = [pc EXCEPT ![t] =
                 IF RunResult(kind, val, RunStatus(kind, status[t])) # NoResult
                 THEN "run_save_open" ELSE "handler"]
    /\ UNCHANGED <<rpcvars, lifevars, watchvars, sbvars, shvars, runner,
                   main_loop, loopClosed, sema, semaWaiters, nextId, task_handle,
                   hooks, specFile, tmpFile, resultFile, resultWrites, eventSet,
                   eventLoop, callbacks, waiter, lastCancel>>

WorkReturns(t) == \E out \in Outputs : WorkEnds(t, "return", out)

WorkRaises(t) == \E exc \in Exceptions : WorkEnds(t, "raise", exc)

WorkCancelled(t) == WorkEnds(t, "cancel", None)

\* TaskResult.save, step 1: tmp.write_text opens and truncates the temp file.
SaveOpen(t) ==
    /\ pc[t] \in {"run_save_open", "fin_save_open"}
    /\ bgRunning = t
    /\ tmpFile' = [tmpFile EXCEPT ![t] = PartialFile]
    /\ pc' = [pc EXCEPT ![t] = IF @ = "run_save_open" THEN "run_save_write"
                                                       ELSE "fin_save_write"]
    /\ UNCHANGED <<rpcvars, lifevars, watchvars, sbvars, shvars, runner,
                   main_loop, loopClosed, sema, semaWaiters, nextId, status,
                   result, task_handle, bgRunning, wrapperExc, hooks, specFile,
                   resultFile, resultWrites, eventSet, eventLoop, callbacks,
                   waiter, lastCancel, raised>>

\* TaskResult.save, step 2: the document is written to the temp file.
SaveWrite(t) ==
    /\ pc[t] \in {"run_save_write", "fin_save_write"}
    /\ bgRunning = t
    /\ tmpFile' = [tmpFile EXCEPT ![t] = CompleteFile(result[t])]
    /\ pc' = [pc EXCEPT ![t] = IF @ = "run_save_write" THEN "run_save_replace"
                                                        ELSE "fin_save_replace"]
    /\ UNCHANGED <<rpcvars, lifevars, watchvars, sbvars, shvars, runner,
                   main_loop, loopClosed, sema, semaWaiters, nextId, status,
                   result, task_handle, bgRunning, wrapperExc, hooks, specFile,
                   resultFile, resultWrites, eventSet, eventLoop, callbacks,
                   waiter, lastCancel, raised>>

\* TaskResult.save, step 3: tmp.replace(p) renames the temp file onto the
\* result path in one step.
SaveReplace(t) ==
    /\ pc[t] \in {"run_save_replace", "fin_save_replace"}
    /\ bgRunning = t
    /\ resultFile' = [resultFile EXCEPT ![t] = tmpFile[t]]
    /\ tmpFile' = [tmpFile EXCEPT ![t] = NoFile]
    /\ resultWrites' = [resultWrites EXCEPT ![t] = @ + 1]
    /\ pc' = [pc EXCEPT ![t] = IF @ = "run_save_replace" THEN "handler"
                                                          ELSE "fin_signal"]
    /\ UNCHANGED <<rpcvars, lifevars, watchvars, sbvars, shvars, runner,
                   main_loop, loopClosed, sema, semaWaiters, nextId, status,
                   result, task_handle, bgRunning, wrapperExc, hooks, specFile,
                   eventSet, eventLoop, callbacks, waiter, lastCancel, raised>>

\* _run_wrapper, try/except around `await task.run()`, by the exception exc
\* that came out of Task.run: none -> "finish"; CancelledError -> status
\* CANCELLED, "cancel", re-raised; any other Exception -> status FAILED, a
\* TaskResult with its text, "fail", swallowed.  Task.run returns normally
\* both when the work returned and when it raised an Exception.
WrapperHook(exc) ==
    IF exc = None THEN "finish"
    ELSE IF exc = "CancelledError" THEN "cancel"
    ELSE "fail"

WrapperStatus(exc, st) ==
    IF exc = None THEN st
    ELSE IF exc = "CancelledError" THEN CANCELLED
    ELSE FAILED

WrapperResult(exc, res) ==
    IF exc \in {None, "CancelledError"} THEN res
    ELSE TaskResult(None, exc, FAILED)

WrapperReraises(exc) == IF exc = "CancelledError" THEN exc ELSE None

Handler(t) ==
    /\ pc[t] = "handler"
    /\ bgRunning = t
    /\ hooks' = [hooks EXCEPT ![t] = Dispatch(@, WrapperHook(wrapperExc[t]))]
    /\ status' = [status EXCEPT ![t] = WrapperStatus(wrapperExc[t], @)]
    /\ result' = [result EXCEPT ![t] = WrapperResult(wrapperExc[t], @)]
    /\ wrapperExc' = [wrapperExc EXCEPT ![t] = WrapperReraises(@)]
    /\ pc' = [pc EXCEPT ![t] = "fin_spec"]
    /\ UNCHANGED <<rpcvars, lifevars, watchvars, sbvars, shvars, runner,
                   main_loop, loopClosed, sema, semaWaiters, nextId, task_handle,
                   bgRunning, specFile, tmpFile, resultFile, resultWrites,
                   eventSet, eventLoop, callbacks, waiter, lastCancel, raised>>

\* _run_wrapper, finally: end_time and spec.save() (itself temp-then-replace,
\* kept as one step), then the result is saved again if there is one.
FinallySpec(t) ==
    /\ pc[t] = "fin_spec"
    /\ bgRunning = t
    /\ specFile' = [specFile EXCEPT ![t] = "ended"]
    /\ pc' = [pc EXCEPT ![t] = IF result[t] # NoResult THEN "fin_save_open"
                                                       ELSE "fin_signal"]
    /\ UNCHANGED <<rpcvars, lifevars, watchvars, sbvars, shvars, runner,
                   main_loop, loopClosed, sema, semaWaiters, nextId, status,
                   result, task_handle, bgRunning, wrapperExc, hooks, tmpFile,
                   resultFile, resultWrites, eventSet, eventLoop, callbacks,
                   waiter, lastCancel, raised>>

\* _run_wrapper, end of finally: `if self._main_loop and not
\* self._main_loop.is_closed()`.  When the check fails the wrapper leaves
\* `async with`, which releases the permit, and its asyncio task ends.
SignalCheck(t) ==
    /\ pc[t] = "fin_signal"
    /\ bgRunning = t
    /\ IF main_loop # NoLoop /\ ~loopClosed[main_loop]
       THEN /\ pc' = [pc EXCEPT ![t] = "fin_call"]
            /\ UNCHANGED <<sema, semaWaiters, bgRunning>>
       ELSE /\ Release
            /\ pc' = [pc EXCEPT ![t] = "done"]
            /\ bgRunning' = NoTask
    /\ UNCHANGED <<rpcvars, lifevars, watchvars, sbvars, shvars, runner,
                   main_loop, loopClosed, nextId, status, result, task_handle,
                   wrapperExc, hooks, specFile, tmpFile, resultFile,
                   resultWrites, eventSet, eventLoop, callbacks, waiter,
                   lastCancel, raised>>

\* `self._main_loop.call_soon_threadsafe(waiter_event.set)` queues the signal
\* on the caller loop captured by the first create_task; if that loop was
\* closed since the check, the call raises RuntimeError instead.  Either way
\* the permit is released and the wrapper's asyncio task ends.
SignalCall(t) ==
    /\ pc[t] = "fin_call"
    /\ bgRunning = t
    /\ IF ~loopClosed[main_loop]
       THEN /\ callbacks' = [callbacks EXCEPT ![main_loop] = @ \cup {t}]
            /\ UNCHANGED wrapperExc
       ELSE /\ wrapperExc' = [wrapperExc EXCEPT ![t] = "RuntimeError"]
            /\ UNCHANGED callbacks
    /\ Release
    /\ pc' = [pc EXCEPT ![t] = "done"]
    /\ bgRunning' = NoTask
    /\ UNCHANGED <<rpcvars, lifevars, watchvars, sbvars, shvars, runner,
                   main_loop, loopClosed, nextId, status, result, task_handle,
                   hooks, specFile, tmpFile, resultFile, resultWrites, eventSet,
                   eventLoop, waiter, lastCancel, raised>>

\* ------------------------------------------------------------------ caller loops
\* The caller loop runs the queued waiter_event.set.
DeliverSignal(l, t) ==
    /\ ~loopClosed[l]
    /\ t \in callbacks[l]
    /\ callbacks' = [callbacks EXCEPT ![l] = @ \ {t}]
    /\ eventSet' = [eventSet EXCEPT ![t] = TRUE]
    /\ UNCHANGED <<rpcvars, lifevars, watchvars, sbvars, shvars, runner,
                   main_loop, loopClosed, sema, semaWaiters, nextId, status,
                   result, task_handle, pc, bgRunning, wrapperExc, hooks,
                   specFile, tmpFile, resultFile, resultWrites, eventLoop,
                   waiter, lastCancel, raised>>

\* asyncio.run of a caller returns and closes its loop; callbacks still
\* queued on it never run.  A coroutine suspended in wait_for_result keeps
\* the loop alive until it returns.
CloseLoop(l) ==
    /\ ~loopClosed[l]
    /\ ~(waiter.pc = "waiting" /\ waiter.loop = l)
    /\ loopClosed' = [loopClosed EXCEPT ![l] = TRUE]
    /\ callbacks' = [callbacks EXCEPT ![l] = {}]
    /\ UNCHANGED <<rpcvars, lifevars, watchvars, sbvars, shvars, runner,
                   main_loop, sema, semaWaiters, nextId, status, result,
                   task_handle, pc, bgRunning, wrapperExc, hooks, specFile,
                   tmpFile, resultFile, resultWrites, eventSet, eventLoop,
                   waiter, lastCancel, raised>>

\* ------------------------------------------------------------------ wait_for_result
\* What wait_for_result hands back once the Event is set:
\* `task.result if task else None`.
WaitValue(t) == result[t]

\* asyncio.Event.wait() on an unset Event binds the Event to the running loop
\* on first use and raises RuntimeError when it is already bound to another
\* loop; wait_for_result catches asyncio.TimeoutError only.
BoundElsewhere(t, l) == eventLoop[t] # NoLoop /\ eventLoop[t] # l

Returned(t, kind, val) ==
    [IdleWaiter EXCEPT !.id = t, !.ret = kind, !.value = val]

\* The call itself, made in the running caller loop l with a finite timeout
\* (to = TRUE) or timeout=None: unknown id -> None; Event already set -> the
\* task's result; otherwise the coroutine suspends on the Event.
WaitCall(t, l, to) ==
    /\ waiter.pc = "idle"
    /\ ~loopClosed[l]
    /\ IF t >= nextId
       THEN /\ waiter' = Returned(t, "unknown", NoResult)
            /\ UNCHANGED eventLoop
       ELSE IF eventSet[t]
       THEN /\ waiter' = [Returned(t, "result", WaitValue(t)) EXCEPT
                             !.after_timeout = waiter.ret = "timeout" /\ waiter.id = t]
            /\ UNCHANGED eventLoop
       ELSE IF BoundElsewhere(t, l)
       THEN /\ waiter' = [Returned(t, "RuntimeError", NoResult) EXCEPT
                             !.after_timeout = waiter.ret = "timeout" /\ waiter.id = t]
            /\ UNCHANGED eventLoop
       ELSE /\ waiter' = [pc |-> "waiting", id |-> t, loop |-> l, timeout |-> to,
                          after_timeout |-> waiter.ret = "timeout" /\ waiter.id = t,
                          ret |-> "none", value |-> NoResult]
            /\ eventLoop' = [eventLoop EXCEPT ![t] = l]
    /\ UNCHANGED <<rpcvars, lifevars, watchvars, sbvars, shvars, runner,
                   main_loop, loopClosed, sema, semaWaiters, nextId, status,
                   result, task_handle, pc, bgRunning, wrapperExc, hooks,
                   specFile, tmpFile, resultFile, resultWrites, eventSet,
                   callbacks, lastCancel, raised>>

\* The Event was set: the suspended coroutine wakes and returns task.result.
WaitWake ==
    /\ waiter.pc = "waiting"
    /\ eventSet[waiter.id]
    /\ waiter' = [Returned(waiter.id, "result", WaitValue(waiter.id)) EXCEPT
                     !.after_timeout = waiter.after_timeout]
    /\ UNCHANGED <<rpcvars, lifevars, watchvars, sbvars, shvars, runner,
                   main_loop, loopClosed, sema, semaWaiters, nextId, status,
                   result, task_handle, pc, bgRunning, wrapperExc, hooks,
                   specFile, tmpFile, resultFile, resultWrites, eventSet,
                   eventLoop, callbacks, lastCancel, raised>>

\* The timeout elapses first: asyncio.TimeoutError is caught, None returned.
WaitTimeout ==
    /\ waiter.pc = "waiting"
    /\ waiter.timeout
    /\ ~eventSet[waiter.id]
    /\ waiter' = Returned(waiter.id, "timeout", NoResult)
    /\ UNCHANGED <<rpcvars, lifevars, watchvars, sbvars, shvars, runner,
                   main_loop, loopClosed, sema, semaWaiters, nextId, status,
                   result, task_handle, pc, bgRunning, wrapperExc, hooks,
                   specFile, tmpFile, resultFile, resultWrites, eventSet,
                   eventLoop, callbacks, lastCancel, raised>>

\* ------------------------------------------------------------------ cancellation
\* Task.cancel(): acts only when Task._task holds a live asyncio.Task.
\* Nothing in the package ever assigns Task._task, so it is None throughout.
CancelActs(t) == task_handle[t] # None /\ pc[t] # "done"

TaskCancel(t, st) == IF CancelActs(t) THEN CANCELLED ELSE st

Live(t) == status[t] \in {PENDING, RUNNING}

\* cancel_task(task_id) on a pending or running task (on an unknown id or a
\* finished task the call changes nothing).
CancelTask(t) ==
    /\ Live(t)
    /\ status' = [status EXCEPT ![t] = TaskCancel(t, @)]
    /\ task_handle' = [task_handle EXCEPT ![t] =
                          IF CancelActs(t) THEN "cancelling" ELSE @]
    /\ lastCancel' = {t}
    /\ UNCHANGED <<rpcvars, lifevars, watchvars, sbvars, shvars, runner,
                   main_loop, loopClosed, sema, semaWaiters, nextId, result, pc,
                   bgRunning, wrapperExc, hooks, specFile, tmpFile, resultFile,
                   resultWrites, eventSet, eventLoop, callbacks, waiter, raised>>

\* cancel_all(): Task.cancel() on every registered task.
CancelAll ==
    /\ \E t \in TaskIds : Live(t)
    /\ status' = [t \in TaskIds |-> TaskCancel(t, status[t])]
    /\ task_handle' = [t \in TaskIds |->
                          IF CancelActs(t) THEN "cancelling" ELSE task_handle[t]]
    /\ lastCancel' = {t \in TaskIds : Live(t)}
    /\ UNCHANGED <<rpcvars, lifevars, watchvars, sbvars, shvars, runner,
                   main_loop, loopClosed, sema, semaWaiters, nextId, result, pc,
                   bgRunning, wrapperExc, hooks, specFile, tmpFile, resultFile,
                   resultWrites, eventSet, eventLoop, callbacks, waiter, raised>>

\* ------------------------------------------------------------------ termination signals
\* Importing olive.sandbox (which olive.tools and olive.__main__ do after
\* olive.tasks is imported) installs `lambda *_: sandbox.stop()` for SIGTERM
\* and SIGINT in place of the handler in force.
ImportSandbox ==
    /\ sigHandler # "sandbox.stop"
    /\ sigHandler' = "sandbox.stop"
    /\ UNCHANGED <<tmvars, rpcvars, watchvars, sbvars, shvars, initCalls,
                   threads, published, cancelledVar, signalled, monitorSeen,
                   stop_event>>

\* ContextVar.set(value) in context ctx changes the value of that context only.
ContextVarSet(var, ctx, value) == [var EXCEPT ![ctx] = value]

\* SIGINT or SIGTERM is delivered: the installed handler runs in the main
\* thread.  _handle sets the flag and calls cancel_all().
HandleSignal ==
    /\ signalled' = TRUE
    /\ monitorSeen' = "none"
    /\ IF sigHandler = "TaskManager._handle"
       THEN /\ cancelledVar' = ContextVarSet(cancelledVar, "main", TRUE)
            /\ status' = [t \in TaskIds |-> TaskCancel(t, status[t])]
            /\ task_handle' = [t \in TaskIds |->
                                  IF CancelActs(t) THEN "cancelling"
                                                   ELSE task_handle[t]]
            /\ lastCancel' = {t \in TaskIds : Live(t)}
       ELSE UNCHANGED <<cancelledVar, status, task_handle, lastCancel>>
    /\ UNCHANGED <<rpcvars, watchvars, sbvars, shvars, runner, main_loop,
                   loopClosed, sema, semaWaiters, nextId, result, pc, bgRunning,
                   wrapperExc, hooks, specFile, tmpFile, resultFile,
                   resultWrites, eventSet, eventLoop, callbacks, waiter, raised,
                   initCalls, threads, published, sigHandler, stop_event>>

\* _monitor on the background loop wakes up from its 0.5 s sleep and tests
\* `self._cancelled.get()` in its own context; when that is true it sets
\* stop_event, which ends runner.run and with it the loop.
MonitorPoll ==
    /\ published > 0
    /\ ~stop_event
    /\ signalled
    /\ monitorSeen' = IF cancelledVar["monitor"] THEN "True" ELSE "False"
    /\ stop_event' = cancelledVar["monitor"]
    /\ UNCHANGED <<tmvars, rpcvars, watchvars, sbvars, shvars, initCalls,
                   threads, published, sigHandler, cancelledVar, signalled>>

\* ------------------------------------------------------------------ sandbox lifecycle
\* is_running(): False without a recorded container name; else whether
\* `docker ps -q -f name=<container_name>` prints an id (nothing when the
\* runtime is unreachable).
IsRunning(name, dk, ct) == name # None /\ dk = "up" /\ ct = "running"

\* _auto_refresh(): the stamp is missing or differs from the current hash.
AutoRefreshAlways(st, h) == TRUE

AutoRefresh(st, h) == st = 0 \/ st # h

\* the latest two entries of the log of consecutive build() calls
Latest(log) == IF Len(log) > 2 THEN Tail(log) ELSE log

\* build(force): nothing when the runtime is unreachable (docker_required) or
\* when neither _auto_refresh() nor force asks for a build; else the stamp is
\* written and then the build tool runs, which succeeds (the image is now
\* built from the current hash) or fails (RuntimeError).
Build(force, ok) ==
    /\ LET builds == docker = "up" /\ (AutoRefresh(stamp, hash) \/ force) IN
       /\ stamp' = IF builds THEN hash ELSE stamp
       /\ image' = IF builds /\ ok THEN hash ELSE image
       /\ buildLog' = IF force THEN <<>> ELSE Latest(Append(buildLog, builds))
       /\ \E out \in Diagnostics : bhist' = BuildHist(builds, ok, stamp, out)
    /\ UNCHANGED <<tmvars, rpcvars, lifevars, watchvars, shvars, session,
                   container_name, container, docker, hash, launched, startRet>>

\* start(): nothing when the runtime is unreachable or the sandbox is
\* running.  A changed stamp makes it call build(), whose failure aborts the
\* start; otherwise _ensure_image() calls build() when there is no image.
\* Then the session id is generated, the container name recorded and
\* `docker run --name <name> olive/sandbox:latest` launches the container,
\* which fails without an image or when the name is taken.  start() has no
\* parameter: start(force_build=...) raises TypeError.
StartArgs == {"()", "(force_build=True)"}

Start(arg, ok) ==
    /\ buildLog' = <<>>
    /\ IF docker = "down"
       THEN /\ startRet' = "None"
            /\ UNCHANGED <<stamp, image, session, container_name, container,
                           launched, bhist>>
       ELSE IF arg # "()"
       THEN /\ startRet' = "TypeError"
            /\ UNCHANGED <<stamp, image, session, container_name, container,
                           launched, bhist>>
       ELSE IF IsRunning(container_name, docker, container)
       THEN /\ startRet' = "already running"
            /\ UNCHANGED <<stamp, image, session, container_name, container,
                           launched, bhist>>
       ELSE LET builds == AutoRefresh(stamp, hash)
                img == IF builds /\ ok THEN hash ELSE image
                aborted == builds /\ ~ok
                runs == ~aborted /\ img # 0 /\ container = "none"
            IN
            /\ stamp' = IF builds THEN hash ELSE stamp
            /\ image' = img
            /\ session' = (session \/ ~aborted)
            /\ container_name' = IF aborted THEN container_name
                                            ELSE "olive-sandbox"
            /\ container' = IF runs THEN "running" ELSE container
            /\ launched' = IF ~runs THEN launched
                           ELSE IF img = hash THEN "current" ELSE "stale"
            /\ \E out \in Diagnostics :
                  bhist' = IF builds \/ image = 0
                           THEN BuildHist(builds, ok, stamp, out) ELSE bhist
            /\ startRet' = IF aborted THEN "RuntimeError"
                           ELSE IF runs THEN "started"
                           ELSE "CalledProcessError"
    /\ UNCHANGED <<tmvars, rpcvars, lifevars, watchvars, shvars, docker, hash>>

\* stop(): `docker rm -f <container_name>` when is_running(), else nothing.
Stop ==
    /\ IsRunning(container_name, docker, container)
    /\ container' = "none"
    /\ launched' = "none"
    /\ UNCHANGED <<tmvars, rpcvars, lifevars, watchvars, shvars, session,
                   container_name, docker, hash, stamp, image, buildLog,
                   startRet, bhist>>

\* The settings or a watched file change: _snapshot_hash() is a new value.
EditSettings ==
    /\ hash <= MaxEdits
    /\ hash' = hash + 1
    /\ buildLog' = <<>>
    /\ UNCHANGED <<tmvars, rpcvars, lifevars, watchvars, shvars, session,
                   container_name, container, docker, stamp, image, launched,
                   startRet, bhist>>

\* The runtime becomes unreachable, and its containers go with it ...
DockerStops ==
    /\ docker = "up"
    /\ docker' = "down"
    /\ container' = "none"
    /\ launched' = "none"
    /\ buildLog' = <<>>
    /\ UNCHANGED <<tmvars, rpcvars, lifevars, watchvars, shvars, session,
                   container_name, hash, stamp, image, startRet, bhist>>

\* ... or reachable again.
DockerStarts ==
    /\ docker = "down"
    /\ docker' = "up"
    /\ buildLog' = <<>>
    /\ UNCHANGED <<tmvars, rpcvars, lifevars, watchvars, shvars, session,
                   container_name, container, hash, stamp, image, launched,
                   startRet, bhist>>

\* Another olive process of the same session (OLIVE_SESSION_ID inherited):
\* its SandboxManager() has no container name recorded.
NewProcess ==
    /\ container_name # None
    /\ dpc = "idle"
    /\ container_name' = None
    /\ buildLog' = <<>>
    /\ UNCHANGED <<tmvars, rpcvars, lifevars, watchvars, shvars, session,
                   container, docker, hash, stamp, image, launched, startRet,
                   bhist>>

\* ------------------------------------------------------------------ sandbox RPC
MaxDispatches == 2                  \* dispatch_task calls explored
ReturnIds == {"r1", None}           \* TaskSpec.return_id (None: fire-and-forget)
ToolNames == {"echo", "shell", "nope"}   \* TaskSpec.name
Registry == {"echo", "shell"}       \* names tool_registry.get() finds
Allowed == {"echo"}                 \* those whose entry has allowed = True

\* SandboxManager.dispatch_task: returns None when the runtime is unreachable
\* (docker_required), raises RuntimeError outside a sandbox session; else the
\* spec goes to a NamedTemporaryFile in the RPC directory ...
DispatchTask(rid, name, wait) ==
    /\ dpc = "idle"
    /\ dispatches < MaxDispatches
    /\ dispatches' = dispatches + 1
    /\ dspec' = [return_id |-> rid, name |-> name, wait |-> wait]
    /\ dhist' = [running |-> docker = "up" /\ container = "running",
                 wrote |-> docker = "up" /\ session]
    /\ IF docker = "down"
       THEN dret' = "None" /\ dpc' = "idle" /\ rpcTmpFile' = rpcTmpFile
       ELSE IF ~session
       THEN dret' = "RuntimeError" /\ dpc' = "idle" /\ rpcTmpFile' = rpcTmpFile
       ELSE dret' = "none" /\ dpc' = "dump" /\ rpcTmpFile' = "partial"
    /\ UNCHANGED <<tmvars, lifevars, watchvars, sbvars, shvars, rpcTaskFile,
                   runnerPc, runnerOut, returncode, ridFile, readerSaw>>

\* ... json.dump, flush, fsync ...
DispatchDump ==
    /\ dpc = "dump"
    /\ rpcTmpFile' = "complete"
    /\ dpc' = "rename"
    /\ UNCHANGED <<tmvars, lifevars, watchvars, sbvars, shvars, dispatches,
                   dspec, dret, rpcTaskFile, runnerPc, runnerOut, returncode,
                   ridFile, readerSaw, dhist>>

\* ... then tmp.rename(task_path), and `docker exec <container> olive run-task
\* <path>` starts the task-runner inside the sandbox; without a running
\* container of that name docker exec exits non-zero (with no name recorded,
\* subprocess.run raises TypeError on the None argument).
DispatchExec ==
    /\ dpc = "rename"
    /\ rpcTaskFile' = rpcTmpFile
    /\ rpcTmpFile' = "absent"
    /\ IF container_name = None
       THEN /\ dret' = "TypeError"
            /\ dpc' = "idle"
            /\ UNCHANGED <<runnerPc, returncode>>
       ELSE IF docker = "up" /\ container = "running"
       THEN /\ runnerPc' = "load"
            /\ dpc' = "exec"
            /\ UNCHANGED <<dret, returncode>>
       ELSE /\ runnerPc' = "exited"
            /\ returncode' = 1
            /\ dpc' = "exec"
            /\ UNCHANGED dret
    /\ UNCHANGED <<tmvars, lifevars, watchvars, sbvars, shvars, dispatches,
                   dspec, runnerOut, ridFile, readerSaw, dhist>>

\* run_task_from_file: TaskSpec.load and the registry lookup; an unknown tool
\* raises RuntimeError and the process exits non-zero.
RunnerLoad ==
    /\ runnerPc = "load"
    /\ IF dspec.name \in Registry
       THEN /\ runnerPc' = "tool"
            /\ UNCHANGED returncode
       ELSE /\ runnerPc' = "exited"
            /\ returncode' = 1
    /\ UNCHANGED <<tmvars, lifevars, watchvars, sbvars, shvars, dispatches, dpc,
                   dspec, dret, rpcTmpFile, rpcTaskFile, runnerOut, ridFile,
                   readerSaw, dhist>>

\* tool.run returns its output ...
RunnerToolReturns ==
    /\ runnerPc = "tool"
    /\ \E out \in Outputs : runnerOut' = out
    /\ runnerPc' = "ran"
    /\ UNCHANGED <<tmvars, lifevars, watchvars, sbvars, shvars, dispatches, dpc,
                   dspec, dret, rpcTmpFile, rpcTaskFile, returncode, ridFile,
                   readerSaw, dhist>>

\* ... or raises: nothing catches it, no result is written, exit non-zero.
RunnerToolRaises ==
    /\ runnerPc = "tool"
    /\ runnerPc' = "exited"
    /\ returncode' = 1
    /\ UNCHANGED <<tmvars, lifevars, watchvars, sbvars, shvars, dispatches, dpc,
                   dspec, dret, rpcTmpFile, rpcTaskFile, runnerOut, ridFile,
                   readerSaw, dhist>>

\* What result_path.write_text leaves on disk when it opens the file: the
\* result path itself, truncated.
WriteTextOpens(file) == PartialFile

\* With a return_id, result_path.write_text(...) opens the result path ...
RunnerOpenResult ==
    /\ runnerPc = "ran"
    /\ IF dspec.return_id # None
       THEN /\ ridFile' = WriteTextOpens(ridFile)
            /\ runnerPc' = "write"
            /\ UNCHANGED returncode
       ELSE /\ runnerPc' = "exited"
            /\ returncode' = 0
            /\ UNCHANGED ridFile
    /\ UNCHANGED <<tmvars, lifevars, watchvars, sbvars, shvars, dispatches, dpc,
                   dspec, dret, rpcTmpFile, rpcTaskFile, runnerOut, readerSaw,
                   dhist>>

\* ... and then writes TaskResult(output=result, status="completed") into it.
RunnerWriteResult ==
    /\ runnerPc = "write"
    /\ ridFile' = CompleteFile(TaskResult(runnerOut, None, COMPLETED))
    /\ runnerPc' = "exited"
    /\ returncode' = 0
    /\ UNCHANGED <<tmvars, lifevars, watchvars, sbvars, shvars, dispatches, dpc,
                   dspec, dret, rpcTmpFile, rpcTaskFile, runnerOut, readerSaw,
                   dhist>>

\* dispatch_task after `docker exec` returned: CalledProcessError on a
\* non-zero exit; the "dispatched" acknowledgement when not waiting or without
\* return_id; else the wait for the result file.
DispatchAfterExec ==
    /\ dpc = "exec"
    /\ runnerPc = "exited"
    /\ runnerPc' = "idle"
    /\ runnerOut' = None
    /\ IF returncode # 0
       THEN dret' = "CalledProcessError" /\ dpc' = "idle"
       ELSE IF ~dspec.wait \/ dspec.return_id = None
       THEN dret' = "dispatched" /\ dpc' = "idle"
       ELSE dret' = dret /\ dpc' = "wait"
    /\ UNCHANGED <<tmvars, lifevars, watchvars, sbvars, shvars, dispatches,
                   dspec, rpcTmpFile, rpcTaskFile, returncode, ridFile,
                   readerSaw, dhist>>

\* What a reader of a result path gets from the file as it is on disk.
ReadFile(file) == file.state

\* wait_file(result_path, timeout=None) returns once the path exists; then
\* json.loads(result_path.read_text()).
DispatchRead ==
    /\ dpc = "wait"
    /\ ridFile.state # "absent"
    /\ dret' = IF ReadFile(ridFile) = "complete" THEN "result" ELSE "JSONDecodeError"
    /\ dpc' = "idle"
    /\ UNCHANGED <<tmvars, lifevars, watchvars, sbvars, shvars, dispatches,
                   dspec, rpcTmpFile, rpcTaskFile, runnerPc, runnerOut,
                   returncode, ridFile, readerSaw, dhist>>

\* :task-result <id> on the host, at any moment: "Result not found" when the
\* path does not exist, else json.loads(result_path.read_text()).
TaskResultCommand ==
    /\ readerSaw' = ReadFile(ridFile)
    /\ UNCHANGED <<tmvars, lifevars, watchvars, sbvars, shvars, dispatches, dpc,
                   dspec, dret, rpcTmpFile, rpcTaskFile, runnerPc, runnerOut,
                   returncode, ridFile, dhist>>

\* ------------------------------------------------------------------ file watcher
\* The ways a wait on a file is started: "await" is `await await_file(...)`
\* inside a running loop; "run" is wait_file on a thread without a loop
\* (asyncio.run(await_file(...))); "marshal" is wait_file on a thread whose
\* loop is running (run_coroutine_threadsafe(await_file(...), loop).result()).
Modes == {"await", "run", "marshal"}

\* The coroutine await_file of call w can take steps.  In mode "marshal" it
\* was handed to the loop of the calling thread, and that thread is blocked
\* in Future.result() until the coroutine has finished.
CanRun(w) == aw[w].mode # "marshal"

\* await_file / wait_file is called.
WaitFile(w, p, to, mode) ==
    /\ aw[w].pc = "idle"
    /\ \A v \in Waiters : v < w => aw[v].pc # "idle"
    /\ aw' = [aw EXCEPT ![w] = [IdleAwait EXCEPT !.pc = "start", !.path = p,
                                                !.timeout = to, !.mode = mode]]
    /\ UNCHANGED <<tmvars, rpcvars, lifevars, sbvars, shvars, exists, fsEvents,
                   dirHandler, nextHandler, hWaiters, notif>>

\* await_file: `if path.exists(): return True`
AwaitExists(w) ==
    /\ aw[w].pc = "start"
    /\ CanRun(w)
    /\ aw' = [aw EXCEPT ![w] = IF exists[aw[w].path]
                               THEN [@ EXCEPT !.pc = "done", !.ret = "True"]
                               ELSE [@ EXCEPT !.pc = "checked"]]
    /\ UNCHANGED <<tmvars, rpcvars, lifevars, sbvars, shvars, exists, fsEvents,
                   dirHandler, nextHandler, hWaiters, notif>>

\* await_file: `handler = _schedule_directory(path.parent)`: the directory's
\* handler, or a new one registered in _DIR_HANDLERS and scheduled on the
\* observer.
AwaitSchedule(w) ==
    /\ aw[w].pc = "checked"
    /\ CanRun(w)
    /\ IF dirHandler # NoHandler
       THEN /\ aw' = [aw EXCEPT ![w].pc = "scheduled", ![w].handler = dirHandler]
            /\ UNCHANGED <<dirHandler, nextHandler>>
       ELSE /\ aw' = [aw EXCEPT ![w].pc = "scheduled", ![w].handler = nextHandler]
            /\ dirHandler' = nextHandler
            /\ nextHandler' = nextHandler + 1
    /\ UNCHANGED <<tmvars, rpcvars, lifevars, sbvars, shvars, exists, fsEvents,
                   hWaiters, notif>>

\* await_file: `handler.add_waiter(path, evt)`, then the coroutine suspends
\* in asyncio.wait_for(evt.wait(), timeout).
AwaitAddWaiter(w) ==
    /\ aw[w].pc = "scheduled"
    /\ CanRun(w)
    /\ hWaiters' = [hWaiters EXCEPT ![aw[w].handler][aw[w].path] = @ \cup {w}]
    /\ aw' = [aw EXCEPT ![w].pc = "waiting"]
    /\ UNCHANGED <<tmvars, rpcvars, lifevars, sbvars, shvars, exists, fsEvents,
                   dirHandler, nextHandler, notif>>

\* Another process creates the file; the observer queues a created-event if
\* the directory is being watched.
CreateFile(p) ==
    /\ ~exists[p]
    /\ exists' = [exists EXCEPT ![p] = TRUE]
    /\ fsEvents' = IF dirHandler # NoHandler THEN fsEvents \cup {p} ELSE fsEvents
    /\ UNCHANGED <<tmvars, rpcvars, lifevars, sbvars, shvars, dirHandler,
                   nextHandler, hWaiters, notif, aw>>

\* asyncio.Event.set() called on the notification thread, not on the loop of
\* the coroutine waiting on the Event: the Event is not thread-safe.  The
\* waiter's loop either notices the wake-up ("set") or stays asleep until
\* something else wakes it ("set_unnoticed").
ForeignSet == {"set", "set_unnoticed"}

\* DirectoryHandler.on_created, first part, on the notification thread: the
\* event is dispatched to the handler scheduled for the directory (dropped if
\* there is none); `events = self._waiters.pop(created, [])` and evt.set() for
\* each of them.
OnCreated(p) ==
    /\ p \in fsEvents
    /\ notif.pc = "idle"
    /\ fsEvents' = fsEvents \ {p}
    /\ IF dirHandler = NoHandler
       THEN UNCHANGED <<hWaiters, aw, notif>>
       ELSE /\ \E outcome \in [hWaiters[dirHandler][p] -> ForeignSet] :
                 aw' = [w \in Waiters |->
                           IF w \in hWaiters[dirHandler][p]
                           THEN [aw[w] EXCEPT !.evt = outcome[w]]
                           ELSE aw[w]]
            /\ hWaiters' = [hWaiters EXCEPT ![dirHandler][p] = {}]
            /\ notif' = [pc |-> "prune", h |-> dirHandler]
    /\ UNCHANGED <<tmvars, rpcvars, lifevars, sbvars, shvars, exists, dirHandler,
                   nextHandler>>

\* `if not self._waiters`
NoWaiters(h) == \A p \in Paths : hWaiters[h][p] = {}

\* DirectoryHandler.on_created, second part: `if not self._waiters:
\* _unschedule_directory(self._dir)`, which pops the directory's current
\* handler from _DIR_HANDLERS and unschedules it.
OnCreatedPrune ==
    /\ notif.pc = "prune"
    /\ notif' = [pc |-> "idle", h |-> NoHandler]
    /\ dirHandler' = IF NoWaiters(notif.h) THEN NoHandler ELSE dirHandler
    /\ UNCHANGED <<tmvars, rpcvars, lifevars, sbvars, shvars, exists, fsEvents,
                   nextHandler, hWaiters, aw>>

\* wait_for returns True: the loop resumes the coroutine after evt.set(); a
\* loop that did not notice the set is woken by the timeout's timer, and
\* wait_for then finds the wait finished.
AwaitWake(w) ==
    /\ aw[w].pc = "waiting"
    /\ CanRun(w)
    /\ aw[w].evt = "set" \/ (aw[w].evt = "set_unnoticed" /\ aw[w].timeout)
    /\ aw' = [aw EXCEPT ![w].pc = "done", ![w].ret = "True"]
    /\ UNCHANGED <<tmvars, rpcvars, lifevars, sbvars, shvars, exists, fsEvents,
                   dirHandler, nextHandler, hWaiters, notif>>

\* The timeout elapses before the Event is set: wait_for cancels evt.wait()
\* and raises asyncio.TimeoutError into await_file.
AwaitTimeout(w) ==
    /\ aw[w].pc = "waiting"
    /\ CanRun(w)
    /\ aw[w].timeout
    /\ aw[w].evt = "unset"
    /\ aw' = [aw EXCEPT ![w].pc = "timedout"]
    /\ UNCHANGED <<tmvars, rpcvars, lifevars, sbvars, shvars, exists, fsEvents,
                   dirHandler, nextHandler, hWaiters, notif>>

\* `handler._waiters[path].remove(evt)`: KeyError when the path is no key of
\* the dict, ValueError when the Event is not in the list, else removed.
RemoveWaiter(listed, w) ==
    IF listed = {} THEN "KeyError"
    ELSE IF w \notin listed THEN "ValueError"
    ELSE "removed"

\* await_file, `except asyncio.TimeoutError`: unregister the waiter, delete
\* the path's empty list, unschedule the directory when no waiter is left,
\* return False.
AwaitUnregister(w) ==
    /\ aw[w].pc = "timedout"
    /\ CanRun(w)
    /\ LET h == aw[w].handler
           p == aw[w].path
           r == RemoveWaiter(hWaiters[h][p], w)
       IN IF r # "removed"
          THEN /\ aw' = [aw EXCEPT ![w].pc = "done", ![w].ret = r]
               /\ UNCHANGED <<hWaiters, dirHandler>>
          ELSE /\ hWaiters' = [hWaiters EXCEPT ![h][p] = @ \ {w}]
               /\ dirHandler' = IF hWaiters[h][p] = {w} /\
                                   \A q \in Paths \ {p} : hWaiters[h][q] = {}
                                THEN NoHandler ELSE dirHandler
               /\ aw' = [aw EXCEPT ![w].pc = "done", ![w].ret = "False"]
    /\ UNCHANGED <<tmvars, rpcvars, lifevars, sbvars, shvars, exists, fsEvents,
                   nextHandler, notif>>

\* ------------------------------------------------------------------ shell dispatch
MaxLine == 3                        \* pieces of one input line
MaxDaemons == 2                     \* live shell daemons

\* An input line is a string of these pieces: a space, the four markers and
\* a word (the name of a tool).
Chars == {" ", ":", "!", "@", "echo"}
Lines == UNION {[1..n -> Chars] : n \in 0..MaxLine}

\* str.strip()
RECURSIVE LStrip(_)
LStrip(s) == IF s # <<>> /\ Head(s) = " " THEN LStrip(Tail(s)) ELSE s

RECURSIVE RStrip(_)
RStrip(s) ==
    IF s # <<>> /\ s[Len(s)] = " " THEN RStrip(SubSeq(s, 1, Len(s) - 1)) ELSE s

StripNothing(s) == s

Strip(s) == RStrip(LStrip(s))

\* str.startswith(prefix)
StartsWith(s, prefix) ==
    Len(s) >= Len(prefix) /\ SubSeq(s, 1, Len(prefix)) = prefix

\* str.split(maxsplit=1)[0] of a stripped string: up to the first space
RECURSIVE FirstWord(_)
FirstWord(s) ==
    IF s = <<>> \/ Head(s) = " " THEN <<>> ELSE <<Head(s)>> \o FirstWord(Tail(s))

\* dispatch: the branch taken for a line; none for a blank line.
Branch(ln, enabled, running) ==
    LET s == Strip(ln) IN
    IF s = <<>> THEN "none"
    ELSE IF StartsWith(s, <<":">>) THEN "management"
    ELSE IF StartsWith(s, <<"!", "!">>) THEN "tool"
    ELSE IF StartsWith(s, <<"!">>) THEN "shell"
    ELSE IF StartsWith(s, <<"@">>) THEN "at"
    ELSE IF enabled /\ ~running THEN "refused"
    ELSE "llm"

\* ToolEntry._should_use_sandbox
ShouldUseSandboxNever(enabled) == FALSE

ShouldUseSandbox(enabled) == enabled

\* How sandbox.dispatch_task(spec) ends for _run_in_sandbox: it returns None
\* when the runtime is unreachable (docker_required), raises outside a
\* session, without a recorded container name and when `docker exec` exits
\* non-zero; else the tool has run inside the sandbox.
DispatchTaskEnds(ok) ==
    IF docker = "down" THEN [kind |-> "return", val |-> None]
    ELSE IF ~session THEN [kind |-> "raise", val |-> "RuntimeError"]
    ELSE IF container_name = None THEN [kind |-> "raise", val |-> "TypeError"]
    ELSE IF container # "running" \/ ~ok
    THEN [kind |-> "raise", val |-> "CalledProcessError"]
    ELSE [kind |-> "return", val |-> "hi"]

\* _dispatch_tool_call: the tool name is the first word after the marker
\* (IndexError without one); tool_registry.dispatch_async refuses a tool that
\* is not registered or not allowed; else the task runs ToolEntry.run, in the
\* sandbox or on the host, and Task.run records how it ended.
ToolCall(ln, ok) ==
    LET rest == Strip(SubSeq(Strip(ln), 3, Len(Strip(ln))))
        name == FirstWord(rest)
        end == IF ShouldUseSandbox(sandboxEnabled) THEN DispatchTaskEnds(ok)
               ELSE IF ok THEN [kind |-> "return", val |-> "hi"]
               ELSE [kind |-> "raise", val |-> "boom"]
    IN
    IF rest = <<>> THEN [where |-> "none", exc |-> "IndexError", status |-> None]
    ELSE IF ~(Len(name) = 1 /\ name[1] \in Registry /\ name[1] \in Allowed)
    THEN [where |-> "none", exc |-> "RuntimeError", status |-> None]
    ELSE [where |-> IF ShouldUseSandbox(sandboxEnabled) THEN "sandbox" ELSE "host",
          exc |-> IF end.kind = "raise" THEN end.val ELSE None,
          status |-> RunStatus(end.kind, RUNNING)]

\* What one dispatch(user_input, interactive) call does; a tool it runs
\* succeeds or fails.
DispatchLine(ln) ==
    LET running == IsRunning(container_name, docker, container)
        b == Branch(ln, sandboxEnabled, running)
    IN
    /\ line' = ln
    /\ ran' = IF b = "none" THEN <<>> ELSE <<b>>
    /\ toolRun' \in IF b = "tool" THEN {ToolCall(ln, ok) : ok \in BOOLEAN}
                                  ELSE {NoToolRun}
    /\ shist' = [called |-> TRUE, enabled |-> sandboxEnabled,
                 running |-> docker = "up" /\ container = "running",
                 docker |-> docker]

\* The interactive shell reads a line and dispatches it.
ShellDispatch(ln) ==
    /\ DispatchLine(ln)
    /\ UNCHANGED <<tmvars, rpcvars, lifevars, watchvars, sbvars, sandboxEnabled,
                   daemons, via>>

\* run_shell_command(command): tmux send-keys to the one live daemon; with
\* several, an error message and the local dispatch; with none, nothing.
RunShellCommand(ln) ==
    /\ via' = [called |-> TRUE, alive |-> daemons, forwarded |-> daemons = 1,
               dispatched |-> daemons > 1]
    /\ IF daemons > 1 THEN DispatchLine(ln)
       ELSE UNCHANGED <<line, ran, toolRun, shist>>
    /\ UNCHANGED <<tmvars, rpcvars, lifevars, watchvars, sbvars, sandboxEnabled,
                   daemons>>

\* A shell daemon is started ...
DaemonStarts ==
    /\ daemons < MaxDaemons
    /\ daemons' = daemons + 1
    /\ UNCHANGED <<tmvars, rpcvars, lifevars, watchvars, sbvars, sandboxEnabled,
                   line, ran, toolRun, shist, via>>

\* ... or exits.
DaemonExits ==
    /\ daemons > 0
    /\ daemons' = daemons - 1
    /\ UNCHANGED <<tmvars, rpcvars, lifevars, watchvars, sbvars, sandboxEnabled,
                   line, ran, toolRun, shist, via>>

\* The user switches sandbox mode in the preferences while no container runs.
SetSandboxEnabled(on) ==
    /\ container = "none"
    /\ sandboxEnabled # on
    /\ sandboxEnabled' = on
    /\ UNCHANGED <<tmvars, rpcvars, lifevars, watchvars, sbvars, line, ran,
                   toolRun, shist, daemons, via>>

\* sandbox.start() with sandbox mode enabled and a build tool that succeeds.
SandboxStart ==
    /\ sandboxEnabled
    /\ Start("()", TRUE)

\* ------------------------------------------------------------------ specifications
\* The task engine with callers that create tasks from their event loops.
Next ==
    \/ RunBackground
    \/ \E l \in Loops : CreateTask(l)
    \/ \E t \in TaskIds : ScheduleWrapper(t)
    \/ \E t \in TaskIds : Resume(t)
    \/ \E t \in TaskIds : WorkReturns(t)
    \/ \E t \in TaskIds : WorkRaises(t)
    \/ \E t \in TaskIds : WorkCancelled(t)
    \/ \E t \in TaskIds : SaveOpen(t)
    \/ \E t \in TaskIds : SaveWrite(t)
    \/ \E t \in TaskIds : SaveReplace(t)
    \/ \E t \in TaskIds : Handler(t)
    \/ \E t \in TaskIds : FinallySpec(t)
    \/ \E t \in TaskIds : SignalCheck(t)
    \/ \E t \in TaskIds : SignalCall(t)
    \/ \E l \in Loops, t \in TaskIds : DeliverSignal(l, t)
    \/ \E l \in Loops : CloseLoop(l)

Spec == Init /\ [][Next]_vars

\* The same engine with callers that call initialize() again.
NextInit ==
    \/ Next
    \/ Initialize

SpecInit == Init /\ [][NextInit]_vars

\* The same engine in a process that receives termination signals.
NextSignal ==
    \/ Next
    \/ ImportSandbox
    \/ HandleSignal
    \/ MonitorPoll

SpecSignal == Init /\ [][NextSignal]_vars

\* Callers waiting for files, the process creating them and the observer's
\* notification thread.
NextWatch ==
    \/ \E w \in Waiters, p \in Paths, to \in BOOLEAN, mode \in Modes :
          WaitFile(w, p, to, mode)
    \/ \E w \in Waiters : AwaitExists(w)
    \/ \E w \in Waiters : AwaitSchedule(w)
    \/ \E w \in Waiters : AwaitAddWaiter(w)
    \/ \E p \in Paths : CreateFile(p)
    \/ \E p \in Paths : OnCreated(p)
    \/ OnCreatedPrune
    \/ \E w \in Waiters : AwaitWake(w)
    \/ \E w \in Waiters : AwaitTimeout(w)
    \/ \E w \in Waiters : AwaitUnregister(w)

SpecWatch == Init /\ [][NextWatch]_vars

\* The same engine with a caller that also cancels tasks.
NextCancel ==
    \/ Next
    \/ \E t \in TaskIds : CancelTask(t)
    \/ CancelAll

SpecCancel == Init /\ [][NextCancel]_vars

\* The same engine with a caller that also waits for results.
NextWait ==
    \/ Next
    \/ \E t \in TaskIds, l \in Loops, to \in BOOLEAN : WaitCall(t, l, to)
    \/ WaitWake
    \/ WaitTimeout

SpecWait == Init /\ [][NextWait]_vars

\* The sandbox manager of the host: image builds and the container's life.
NextSandbox ==
    \/ \E force, ok \in BOOLEAN : Build(force, ok)
    \/ \E arg \in StartArgs, ok \in BOOLEAN : Start(arg, ok)
    \/ Stop
    \/ EditSettings
    \/ DockerStops
    \/ DockerStarts
    \/ NewProcess

SpecSandbox == Init /\ [][NextSandbox]_vars

\* The host starting and stopping the sandbox and dispatching tasks into it,
\* the task-runner inside it and a reader of the result path.
NextRpc ==
    \/ \E arg \in StartArgs, ok \in BOOLEAN : Start(arg, ok)
    \/ Stop
    \/ \E rid \in ReturnIds, name \in ToolNames, wait \in BOOLEAN :
          DispatchTask(rid, name, wait)
    \/ DispatchDump
    \/ DispatchExec
    \/ RunnerLoad
    \/ RunnerToolReturns
    \/ RunnerToolRaises
    \/ RunnerOpenResult
    \/ RunnerWriteResult
    \/ DispatchAfterExec
    \/ DispatchRead
    \/ TaskResultCommand

SpecRpc == Init /\ [][NextRpc]_vars

\* The shell reading lines, with the sandbox and the preferences changing
\* between them.
NextShell ==
    \/ \E ln \in Lines : ShellDispatch(ln)
    \/ \E on \in BOOLEAN : SetSandboxEnabled(on)
    \/ SandboxStart
    \/ Stop
    \/ DockerStops
    \/ DockerStarts

SpecShell == Init /\ [][NextShell]_vars

\* `olive shell -c <command>` calls while shell daemons come and go.
NextDaemon ==
    \/ \E ln \in Lines : RunShellCommand(ln)
    \/ DaemonStarts
    \/ DaemonExits

SpecDaemon == Init /\ [][NextDaemon]_vars

\* ------------------------------------------------------------------ properties
\* create_task returned the id: the wrapper was scheduled
Submitted(t) == pc[t] \notin {"absent", "unscheduled"}

Started(t) == \E i \in 1..Len(hooks[t]) : hooks[t][i] = "start"

\* wrappers inside `async with self._sema`
Holders == {t \in TaskIds : Started(t) /\ pc[t] # "done"}

\* C1: every task whose wrapper has run to its end has exactly one terminal
\* status, and a TaskResult file carrying that status exists at its result path.
C1_TerminalStatusWithResultFile ==
    \A t \in TaskIds :
        pc[t] = "done" =>
            /\ status[t] \in TerminalStatus
            /\ resultFile[t].state = "complete"
            /\ resultFile[t].doc.status = status[t]

\* C2: at most max_concurrency tasks are running, and at most max_concurrency
\* tasks are between their start hook and the release of their permit, so a
\* further task sees its start hook only after an earlier one has released.
C2_BoundedConcurrency ==
    /\ Cardinality({t \in TaskIds : status[t] = RUNNING}) <= MaxConcurrency
    /\ Cardinality(Holders) <= MaxConcurrency

\* more tasks than permits were submitted and all of them have started
C2_Witness ==
    /\ Cardinality({t \in TaskIds : Started(t)}) > MaxConcurrency
    /\ \E t \in TaskIds : pc[t] = "done"

\* C3: a reader of a result path sees either no file or one complete
\* document, never an empty or truncated one.
C3_NoPartialResult ==
    /\ readerSaw # "partial"
    /\ dret # "JSONDecodeError"
    /\ \A t \in TaskIds : ReadFile(resultFile[t]) # "partial"

\* C4: when wait_for_result has woken on the completion signal, the result
\* file is completely written and the in-memory result is set.
C4_ResultBeforeSignal ==
    (waiter.pc = "idle" /\ waiter.ret = "result") =>
        /\ result[waiter.id] # NoResult
        /\ resultFile[waiter.id] = CompleteFile(result[waiter.id])

HookOrders ==
    {<<>>, <<"create">>, <<"create", "start">>}
        \cup {<<"create", "start", h>> : h \in {"finish", "fail", "cancel"}}

\* C5: the hooks of a task fire in the order create, start, then exactly one
\* of finish, fail, cancel; none fires twice.
C5_HookOrder == \A t \in TaskIds : hooks[t] \in HookOrders

C5_Witness == \E t \in TaskIds : Len(hooks[t]) = 3 /\ pc[t] = "done"

\* C6: the terminal hook matches the terminal status: finish only for
\* completed, fail for every failed task, cancel only for cancelled.
C6_TerminalHookMatchesStatus ==
    \A t \in TaskIds :
        pc[t] = "done" =>
            /\ status[t] = COMPLETED <=> hooks[t][3] = "finish"
            /\ status[t] = FAILED <=> hooks[t][3] = "fail"
            /\ status[t] = CANCELLED <=> hooks[t][3] = "cancel"

\* permits are conserved: free permits plus wrappers inside the semaphore
Granted == {t \in TaskIds : pc[t] = "blocked" /\
               t \notin {semaWaiters[i] : i \in 1..Len(semaWaiters)}}

\* C7: a task whose work raised an Exception is failed, its TaskResult has
\* output None and the exception text as error, the wrapper's asyncio task
\* ends without an exception, and once the wrapper is done its permit is back
\* and the loop is free for the other tasks.
C7_FailureCaptured ==
    \A t \in TaskIds :
        raised[t] # None =>
            /\ status[t] = FAILED
            /\ result[t] = TaskResult(None, raised[t], FAILED)
            /\ wrapperExc[t] \notin Exceptions \cup {"CancelledError"}
            /\ pc[t] = "done" =>
                  /\ resultFile[t] = CompleteFile(result[t])
                  /\ bgRunning # t
                  /\ sema + Cardinality(Holders \cup Granted) = MaxConcurrency

\* a task submitted after a failed one has been executed
C7_Witness ==
    \E t, u \in TaskIds :
        /\ t < u
        /\ raised[t] # None /\ pc[t] = "done"
        /\ pc[u] = "done" /\ status[u] = COMPLETED

\* C8: wait_for_result never throws; for an unknown id and on timeout it
\* returns None.
C8_WaitNeverThrows ==
    /\ (waiter.id \in TaskIds /\ (Submitted(waiter.id) \/ waiter.id >= nextId))
           => waiter.ret # "RuntimeError"
    /\ waiter.ret \in {"unknown", "timeout"} => waiter.value = NoResult

\* C9: a wait on the same id that follows a timed-out wait returns the task's
\* TaskResult.
C9_WaitAfterTimeoutReturnsResult ==
    (waiter.pc = "idle" /\ waiter.after_timeout /\ waiter.ret = "result") =>
        /\ status[waiter.id] \in TerminalStatus
        /\ waiter.value # NoResult
        /\ waiter.value = result[waiter.id]

\* C10: after cancel_task / cancel_all on a pending or running task the task
\* is cancelled and never ends as completed.
C10_CancelFlipsStatus ==
    \A t \in lastCancel : Submitted(t) => status[t] = CANCELLED

\* C11: over the whole life of a task its result file is written exactly one
\* time: never twice, and once for every ended task that has a TaskResult
\* (the ended task without a TaskResult is the case of C1).
C11_ResultWrittenOnce ==
    \A t \in TaskIds :
        /\ resultWrites[t] <= 1
        /\ (pc[t] = "done" /\ result[t] # NoResult) => resultWrites[t] = 1

\* C12: after any number of initialize() calls exactly one background
\* scheduler thread exists.
C12_OneBackgroundThread == threads = 1

\* C13: after a termination signal the cancellation flag is set, the monitor
\* coroutine, once it has polled, has observed it, and the background loop is
\* then on its way to stop (stop_event set).
C13_SignalStopsLoop ==
    signalled =>
        /\ \E c \in Contexts : cancelledVar[c]
        /\ monitorSeen # "none" => (monitorSeen = "True" /\ stop_event)

\* a created-event for the waiter's path is still to be dispatched to the
\* handler that lists the waiter's Event
EventPending(w) ==
    /\ aw[w].path \in fsEvents
    /\ dirHandler = aw[w].handler
    /\ w \in hWaiters[aw[w].handler][aw[w].path]

\* C14: no wakeup is lost in await_file(path, timeout=None): whenever the
\* waiter is suspended and its file exists, its Event is set and noticed by
\* its loop or the created-event that will set it is still to be dispatched.
C14_NoLostWakeup ==
    \A w \in Waiters :
        (aw[w].pc = "waiting" /\ ~aw[w].timeout /\ exists[aw[w].path]) =>
            (aw[w].evt = "set" \/ EventPending(w))

\* C15: await_file never raises, and once its timeout has elapsed it
\* returns False.
C15_AwaitNeverRaises ==
    \A w \in Waiters : aw[w].ret \in {"none", "True", "False"}

\* C16: a wait_file call made on a thread whose loop is running does not
\* deadlock: until it has returned, its coroutine can take steps.
C16_WaitFileNoDeadlock ==
    \A w \in Waiters :
        (aw[w].mode = "marshal" /\ aw[w].pc # "done") => CanRun(w)

\* C17: a dispatch_task call made while the sandbox is not running does not
\* succeed, and it has written no file into the RPC directory.
C17_NoWriteWhenNotRunning ==
    (dispatches > 0 /\ ~dhist.running) =>
        /\ ~dhist.wrote
        /\ dret \notin {"dispatched", "result"}

C19_StartBuildsFirst ==
    container = "running" => launched = "current"

\* C20: is_running() is true exactly when the runtime is reachable and
\* reports a running container of the deterministic name.
C20_IsRunningMatchesRuntime ==
    IsRunning(container_name, docker, container)
        <=> (docker = "up" /\ container = "running")

\* C21: a build() call whose build tool exited non-zero raises an exception
\* that carries the tool's diagnostic output as the tool printed it.
C21_BuildFailureCarriesOutput ==
    bhist.failed => bhist.exc = bhist.out

\* C30: a build() call whose build tool failed leaves the stored stamp as it
\* found it.
C30_StampOnlyAfterSuccess ==
    bhist.failed => stamp = bhist.before

\* first piece of the line that is not a space, and the piece after it
FirstAt(ln, i) == i \in 1..Len(ln) /\ \A j \in 1..(i - 1) : ln[j] = " "

Marked(ln, c) == \E i \in 1..Len(ln) : FirstAt(ln, i) /\ ln[i] = c

Marked2(ln, c, d) ==
    \E i \in 1..(Len(ln) - 1) : FirstAt(ln, i) /\ ln[i] = c /\ ln[i + 1] = d

Blank(ln) == \A i \in 1..Len(ln) : ln[i] = " "

Took(b) == ran = <<b>>

\* C22: every dispatch call executes at most one branch: none for a blank
\* line, and for any other line the first that applies of management (':'),
\* tool ('!!'), raw shell ('!'), context file ('@'), the refusal while the
\* sandbox is enabled and is_running() is false, and the conversational
\* fallback.
C22_OneBranchInOrder ==
    shist.called =>
        /\ Len(ran) <= 1
        /\ ran = <<>> <=> Blank(line)
        /\ Took("management") <=> Marked(line, ":")
        /\ Took("tool") <=> Marked2(line, "!", "!")
        /\ Took("shell") <=> (Marked(line, "!") /\ ~Marked2(line, "!", "!"))
        /\ Took("at") <=> Marked(line, "@")
        /\ (Took("refused") \/ Took("llm")) <=>
              (~Blank(line) /\ \A c \in {":", "!", "@"} : ~Marked(line, c))
        /\ Took("refused") => shist.enabled /\ ~shist.running
        /\ Took("llm") => ~shist.enabled \/ shist.running

\* a line with the tool marker after leading space went to the tool branch
C22_Witness ==
    shist.called /\ line = <<" ", "!", "!">> /\ Took("tool")

\* C22 as stated: every line executes exactly one of the five branches.
C22_ExactlyOneOfFive ==
    shist.called =>
        \E b \in {"management", "tool", "shell", "refused", "llm"} : Took(b)

\* C23: a dispatch call made while the sandbox is enabled in the preferences
\* and not running forwards nothing to the conversational fallback (a line
\* without a marker is refused) and runs no tool on the host.
C23_NoSilentFallback ==
    (shist.called /\ shist.enabled /\ ~shist.running) =>
        /\ ~Took("llm")
        /\ toolRun.where # "host"
        /\ (~Blank(line) /\ \A c \in {":", "!", "@"} : ~Marked(line, c))
              => Took("refused")

\* a line without a marker was refused while the sandbox was enabled and not
\* running
C23_Witness ==
    shist.called /\ shist.enabled /\ ~shist.running /\ Took("refused")

\* C25: a tool task routed to the sandbox while the container runtime is
\* unreachable ends with status failed and an error.
C25_UnavailableRuntimeFails ==
    (shist.called /\ toolRun.where = "sandbox" /\ shist.docker = "down") =>
        toolRun.status = FAILED /\ toolRun.exc # None

\* C26: a run_shell_command call forwards the command to the daemon when
\* exactly one shell daemon is alive and dispatches it locally in every
\* other case.
C26_ForwardOrRunLocally ==
    via.called =>
        /\ via.alive = 1 => (via.forwarded /\ ~via.dispatched)
        /\ via.alive # 1 => (via.dispatched /\ ~via.forwarded)

\* C24: when run_task_from_file finishes a task that carries a return_id,
\* the tool having returned or raised, the result file of that return_id is
\* a complete document with status completed or failed.
C24_ResultAlwaysWritten ==
    [][(runnerPc \in {"tool", "write"} /\ runnerPc' = "exited"
            /\ dspec.return_id # None)
        => (ridFile'.state = "complete"
            /\ ridFile'.doc.status \in {COMPLETED, FAILED})]_vars

\* C29: run_task_from_file runs no tool whose registry entry is not allowed.
C29_RunnerHonoursAllowed ==
    runnerPc \in {"tool", "ran", "write"} => dspec.name \in Allowed

\* an await_file call suspended on an Event that nothing has set
Pending(w) == aw[w].pc = "waiting" /\ aw[w].evt = "unset"

\* no await_file or on_created call is between two of its steps
Quiet ==
    /\ notif.pc = "idle"
    /\ \A w \in Waiters : aw[w].pc \in {"idle", "waiting", "done"}

\* C27: every pending waiter is registered on the handler that is currently
\* scheduled for the directory, and between calls the directory has a
\* handler exactly when a waiter is pending.
C27_OneWatchPerDirectory ==
    /\ \A w \in Waiters :
          Pending(w) => /\ dirHandler = aw[w].handler
                        /\ w \in hWaiters[aw[w].handler][aw[w].path]
    /\ Quiet => (dirHandler # NoHandler <=> \E w \in Waiters : Pending(w))

\* C28: once the wrapper of a task has ended, a caller suspended in
\* wait_for_result(id, timeout=None) on that task has the completion signal
\* set or queued for delivery, so the wait returns.
C28_SignalReachesWaiter ==
    (waiter.pc = "waiting" /\ ~waiter.timeout /\ pc[waiter.id] = "done") =>
        \/ eventSet[waiter.id]
        \/ \E l \in Loops : ~loopClosed[l] /\ waiter.id \in callbacks[l]

====
